---- MODULE Spec2Model ----
(***************************************************************************)
(* A model of superdo (src/src/main.rs): the Sudoku board with its         *)
(* candidate sets, the constraint propagation of SudokuBoard::solve, the   *)
(* parallel search of resolve on the rayon worker pool, the stack based    *)
(* brute_force enumerator and the input loop of main.                      *)
(***************************************************************************)
EXTENDS Integers, Sequences, FiniteSets, TLC

\* ------------------------------------------------------------------ board

\* Side of the board (main.rs: 0..9 in empty, new_with, set, solve).
N == 9
\* Side of a small box (main.rs: (row / 3) * 3, 0..3 in set and solve).
B == 3

Idx == 0 .. (N - 1)
Digits == 1 .. N
Pos == Idx \X Idx

\* The row-major position of a cell: row * 9 + col (resolve, main.rs:293,297).
RowMajor(row, col) == row * N + col
RowOf(i) == i \div N
ColOf(i) == i % N

\* SudokuPos::new_with: a cell of value 0 starts with the candidates 1..9, a
\* cell with a digit with none.
PosNewWith(val) ==
    [val |-> val, digits |-> IF val = 0 THEN Digits ELSE {}]

\* SudokuBoard::empty: 9 x 9 cells SudokuPos::new_with(0).
EmptyBoard == [p \in Pos |-> PosNewWith(0)]

\* Cleared with the loop over the column left out.
ClearedNoCol(p, row, col) ==
    \/ p[1] = row
    \/ /\ (p[1] \div B) * B = (row \div B) * B
       /\ (p[2] \div B) * B = (col \div B) * B

\* The cells whose candidate sets set(val, row, col) clears val from: the
\* row, the column and the 3x3 box of (row, col).
Cleared(p, row, col) ==
    \/ p[1] = row
    \/ p[2] = col
    \/ /\ (p[1] \div B) * B = (row \div B) * B
       /\ (p[2] \div B) * B = (col \div B) * B

\* For each cell, the cells set clears: 9 + 9 + 9 cells, with overlap.
ClearedCells == [c \in Pos |-> {p \in Pos : Cleared(p, c[1], c[2])}]

\* set that, after its clearing loops, gives the value the cell held before
\* back to the candidates of the unassigned cells of its row, column and box.
setRestoresOld(board, val, row, col) ==
    IF val = 0
    THEN (<<row, col>> :> [board[<<row, col>>] EXCEPT !.val = 0]) @@ board
    ELSE (<<row, col>> :> [val |-> val, digits |-> {}]) @@
         [p \in ClearedCells[<<row, col>>] |->
            [val |-> board[p].val,
             digits |-> IF board[p].val = 0 /\ board[<<row, col>>].val # 0
                        THEN (board[p].digits \ {val}) \cup {board[<<row, col>>].val}
                        ELSE board[p].digits \ {val}]] @@
         board

\* set without digits.clear() on the cell itself: the cell keeps the
\* candidates it had, less the value.
setKeepsDigits(board, val, row, col) ==
    IF val = 0
    THEN (<<row, col>> :> [board[<<row, col>>] EXCEPT !.val = 0]) @@ board
    ELSE (<<row, col>> :> [val |-> val,
                           digits |-> board[<<row, col>>].digits \ {val}]) @@
         [p \in ClearedCells[<<row, col>>] |->
            [val |-> board[p].val, digits |-> board[p].digits \ {val}]] @@
         board

\* set without the three clearing loops: only the cell itself changes.
setNoClear(board, val, row, col) ==
    IF val = 0
    THEN (<<row, col>> :> [board[<<row, col>>] EXCEPT !.val = 0]) @@ board
    ELSE (<<row, col>> :> [val |-> val, digits |-> {}]) @@ board

\* SudokuBoard::set: writes the value; for a nonzero value clears the cell's
\* own candidates and removes the value from the candidates of the row, the
\* column and the box.  Nothing is checked.
set(board, val, row, col) ==
    IF val = 0
    THEN (<<row, col>> :> [board[<<row, col>>] EXCEPT !.val = 0]) @@ board
    ELSE (<<row, col>> :> [val |-> val, digits |-> {}]) @@
         [p \in ClearedCells[<<row, col>>] |->
            [val |-> board[p].val, digits |-> board[p].digits \ {val}]] @@
         board

\* SudokuBoard::new_with: set every cell of the grid in row-major order on an
\* empty board.  i is the number of cells already set.
RECURSIVE NewWithFrom(_, _, _)
NewWithFrom(b, grid, i) ==
    IF i = N * N \/ DOMAIN b # Pos THEN b
    ELSE NewWithFrom(set(b, grid[<<RowOf(i), ColOf(i)>>], RowOf(i), ColOf(i)),
                     grid, i + 1)

new_with(grid) == NewWithFrom(EmptyBoard, grid, 0)

\* exhausted without the test of the candidates: any cell of value 0 counts.
exhaustedAnyFree(board) == \E p \in Pos : board[p].val = 0

\* SudokuBoard::exhausted: some cell of value 0 has no candidate left.
exhausted(board) ==
    \E p \in Pos : board[p].val = 0 /\ board[p].digits = {}

\* The values of a board as a plain grid (what Display prints).
Values(board) == [p \in Pos |-> board[p].val]

\* ------------------------------------------------------------------ solve

\* DigitStats with the counts starting at 0 instead of 1.
DigitStatsFromZero(board, row, col, others) ==
    [n \in board[<<row, col>>].digits |->
        Cardinality({p \in others : n \in board[p].digits})]

\* The digit statistics of solve for the cell (row, col): every candidate of
\* the cell starts at 1 and is counted once more for each cell of `others`
\* that has it among its candidates.
DigitStats(board, row, col, others) ==
    [n \in board[<<row, col>>].digits |->
        1 + Cardinality({p \in others : n \in board[p].digits})]

\* The row of the cell, the cell itself included.
RowAll(row, col) == {<<row, i>> : i \in Idx}

RowOthers(row, col) == {<<row, i>> : i \in Idx \ {col}}
ColOthers(row, col) == {<<i, col>> : i \in Idx \ {row}}
GridOthers(board, row, col) ==
    {p \in Pos : /\ p[1] \div B = row \div B
                 /\ p[2] \div B = col \div B
                 /\ p # <<row, col>>
                 /\ board[p].val = 0}

\* count_and_set that also takes a digit counted twice.
CountOneOrTwo(stats) == {k \in DOMAIN stats : stats[k] <= 2}

\* count_and_set: the digits whose count is 1.  The closure sets the first
\* such digit met in the HashMap's iteration order, which is unspecified, so
\* any of them may be the one that is set.
CountOne(stats) == {k \in DOMAIN stats : stats[k] = 1}

\* SolveCell that passes over a cell without candidates instead of
\* returning false, and does not count it as empty.
SolveCellNoFail(st, row, col) ==
    LET pos == st.board[<<row, col>>]
        changed(k) ==
            LET b == set(st.board, k, row, col)
            IN  [board |-> b, has_empty |-> TRUE, has_changes |-> TRUE,
                 returned |-> FALSE,
                 emptied |-> st.emptied
                              \/ \E p \in Pos : b[p].val = 0 /\ b[p].digits = {}]
    IN  IF st.returned \/ pos.val # 0 \/ pos.digits = {} THEN {st}
        ELSE IF Cardinality(pos.digits) = 1
        THEN {changed(CHOOSE d \in pos.digits : TRUE)}
        ELSE
          LET inRow == CountOne(DigitStats(st.board, row, col, RowOthers(row, col)))
              inCol == CountOne(DigitStats(st.board, row, col, ColOthers(row, col)))
              inGrid == CountOne(DigitStats(st.board, row, col,
                                            GridOthers(st.board, row, col)))
          IN  IF inRow # {} THEN {changed(k) : k \in inRow}
              ELSE IF inCol # {} THEN {changed(k) : k \in inCol}
              ELSE IF inGrid # {} THEN {changed(k) : k \in inGrid}
              ELSE {[st EXCEPT !.has_empty = TRUE]}

\* An unassigned cell without a candidate.
DeadCell(board) == \E p \in Pos : board[p].val = 0 /\ board[p].digits = {}

\* One cell of a pass of solve (the body of the two for loops, main.rs:130-223)
\* on the pass state st = [board, has_empty, has_changes, returned, emptied];
\* returned is set by the `return false` of an empty candidate set.  emptied
\* is history: some unassigned cell had no candidate on entry, or lost its
\* last one by an assignment of solve.  A set of states, because
\* count_and_set may set any digit of count 1.
SolveCell(st, row, col) ==
    LET pos == st.board[<<row, col>>]
        changed(k) ==
            LET b == set(st.board, k, row, col)
            IN  [board |-> b, has_empty |-> TRUE, has_changes |-> TRUE,
                 returned |-> FALSE, emptied |-> st.emptied \/ DeadCell(b)]
    IN  IF st.returned \/ pos.val # 0 THEN {st}
        ELSE IF pos.digits = {}
        THEN {[st EXCEPT !.has_empty = TRUE, !.returned = TRUE]}
        ELSE IF Cardinality(pos.digits) = 1
        THEN {changed(CHOOSE d \in pos.digits : TRUE)}
        ELSE
          LET inRow == CountOne(DigitStats(st.board, row, col, RowOthers(row, col)))
              inCol == CountOne(DigitStats(st.board, row, col, ColOthers(row, col)))
              inGrid == CountOne(DigitStats(st.board, row, col,
                                            GridOthers(st.board, row, col)))
          IN  IF inRow # {} THEN {changed(k) : k \in inRow}
              ELSE IF inCol # {} THEN {changed(k) : k \in inCol}
              ELSE IF inGrid # {} THEN {changed(k) : k \in inGrid}
              ELSE {[st EXCEPT !.has_empty = TRUE]}

\* for col in 0..9 of one row, from column col on.
RECURSIVE SolveRow(_, _, _)
SolveRow(sts, row, col) ==
    IF sts = {} \/ col = N THEN sts
    ELSE SolveRow(UNION {SolveCell(st, row, col) : st \in sts}, row, col + 1)

\* for row in 0..9, from row on.
RECURSIVE SolveRows(_, _)
SolveRows(sts, row) ==
    IF sts = {} \/ row = N THEN sts
    ELSE SolveRows(SolveRow(sts, row, 0), row + 1)

\* One pass of the loop of solve over all 81 cells.
SolvePass(board, emptied) ==
    SolveRows({[board |-> board, has_empty |-> FALSE, has_changes |-> FALSE,
                returned |-> FALSE, emptied |-> emptied]}, 0)

\* The loop of solve: passes until one returns.  exit is the return
\* statement taken ("empty": main.rs:135, "full": 229, "stuck": 233) and
\* moved tells whether the last pass changed the board it started from.
RECURSIVE SolveLoop(_, _)
SolveLoop(board, emptied) ==
    UNION { IF st.returned
            THEN {[board |-> st.board, ret |-> FALSE, emptied |-> st.emptied,
                   exit |-> "empty", moved |-> st.board # board]}
            ELSE IF ~st.has_empty
            THEN {[board |-> st.board, ret |-> TRUE, emptied |-> st.emptied,
                   exit |-> "full", moved |-> st.board # board]}
            ELSE IF ~st.has_changes
            THEN {[board |-> st.board, ret |-> FALSE, emptied |-> st.emptied,
                   exit |-> "stuck", moved |-> st.board # board]}
            ELSE SolveLoop(st.board, st.emptied) : st \in SolvePass(board, emptied) }

\* solve that returns after its first pass: true if the pass met no cell of
\* value 0, false otherwise.
solveOnePass(board) ==
    {[board |-> st.board, ret |-> ~st.returned /\ ~st.has_empty,
      emptied |-> st.emptied,
      exit |-> IF st.returned THEN "empty"
               ELSE IF ~st.has_empty THEN "full" ELSE "stuck",
      moved |-> st.board # board] : st \in SolvePass(board, DeadCell(board))}

\* SudokuBoard::solve: the outcomes [board, ret, emptied].
solve(board) == SolveLoop(board, DeadCell(board))

\* ------------------------------------------------------------------ puzzles

GridOf(rows) == [p \in Pos |-> rows[p[1] + 1][p[2] + 1]]

\* The puzzle of test_sudoku_1 and test_sudoku_3 (main.rs:525-535).
Test1Rows ==
    << <<0, 4, 0, 6, 1, 0, 9, 2, 5>>,
       <<0, 5, 1, 0, 0, 0, 7, 4, 6>>,
       <<9, 2, 6, 0, 0, 0, 8, 1, 3>>,
       <<0, 8, 0, 0, 5, 0, 0, 7, 1>>,
       <<0, 9, 0, 1, 0, 0, 0, 3, 2>>,
       <<0, 1, 3, 4, 7, 0, 5, 9, 8>>,
       <<0, 0, 0, 0, 0, 0, 1, 8, 9>>,
       <<1, 6, 2, 8, 0, 0, 3, 5, 7>>,
       <<8, 0, 9, 0, 0, 1, 2, 6, 4>> >>

\* Its completed grid (main.rs:543-553).
SolvedRows ==
    << <<7, 4, 8, 6, 1, 3, 9, 2, 5>>,
       <<3, 5, 1, 9, 2, 8, 7, 4, 6>>,
       <<9, 2, 6, 7, 4, 5, 8, 1, 3>>,
       <<2, 8, 4, 3, 5, 9, 6, 7, 1>>,
       <<5, 9, 7, 1, 8, 6, 4, 3, 2>>,
       <<6, 1, 3, 4, 7, 2, 5, 9, 8>>,
       <<4, 3, 5, 2, 6, 7, 1, 8, 9>>,
       <<1, 6, 2, 8, 9, 4, 3, 5, 7>>,
       <<8, 7, 9, 5, 3, 1, 2, 6, 4>> >>

\* The puzzle of test_sudoku_2, which needs a guess (main.rs:559-569).
Test2Rows ==
    << <<0, 4, 6, 9, 0, 3, 0, 0, 0>>,
       <<0, 0, 3, 0, 5, 0, 0, 6, 0>>,
       <<9, 0, 0, 0, 0, 2, 0, 0, 3>>,
       <<0, 0, 5, 0, 0, 6, 0, 0, 0>>,
       <<8, 0, 0, 0, 0, 0, 0, 1, 0>>,
       <<0, 1, 0, 7, 8, 0, 2, 0, 0>>,
       <<0, 0, 0, 0, 0, 0, 0, 5, 0>>,
       <<0, 8, 1, 3, 0, 0, 0, 0, 7>>,
       <<0, 0, 0, 8, 0, 0, 1, 0, 4>> >>

Test1 == GridOf(Test1Rows)
Test2 == GridOf(Test2Rows)
Solved == GridOf(SolvedRows)

\* A grid with some cells blanked, and a grid with one more digit written.
Blanked(grid, cells) == [p \in Pos |-> IF p \in cells THEN 0 ELSE grid[p]]
Given(grid, p, d) == (p :> d) @@ grid

\* Cells of the completed grid that are blanked to make puzzles with several
\* completions: (0,5) (0,8) (2,5) (2,8) hold 3 5 / 5 3 and (0,4) (0,5) (8,4)
\* (8,5) hold 1 3 / 3 1, so each rectangle can be swapped.
PoolCells ==
    << <<0, 5>>, <<0, 8>>, <<2, 5>>, <<2, 8>>, <<0, 4>>, <<8, 4>>, <<8, 5>>,
       <<1, 7>>, <<1, 8>>, <<8, 7>> >>

\* How many cells of PoolCells the puzzles blank.
PoolSize == 4

Pool == {PoolCells[i] : i \in 1 .. PoolSize}

\* The completed grid with all pool cells blanked: two completions or more.
ManyPuzzle == Blanked(Solved, Pool)

\* Conflict-free puzzles without a completion: test_sudoku_2 with one more
\* given that no completion has (the search forks before it finds out), and
\* test_sudoku_1 with a given that leaves (0,2) without a candidate.
DeadPuzzle == Given(Test2, <<4, 8>>, 5)
ExhaustedPuzzle == Given(Test1, <<0, 0>>, 3)

\* A puzzle with three completions that takes two guesses in a row: both
\* rectangles of PoolCells are blanked.
DeepPuzzle == Blanked(Solved, {PoolCells[i] : i \in 1 .. 7})

\* Input digits that conflict: row 0 gets a second 7.
ConflictPuzzle == Given(ManyPuzzle, <<0, 5>>, 7)

\* ---------------------------------------------------------------- validity

SameUnit(p, q) ==
    \/ p[1] = q[1]
    \/ p[2] = q[2]
    \/ (p[1] \div B = q[1] \div B /\ p[2] \div B = q[2] \div B)

\* The other cells of the row, column and box of each cell.
Peers == [p \in Pos |-> {q \in Pos : q # p /\ SameUnit(p, q)}]

\* No two cells of a row, column or box hold the same nonzero value.
NoConflict(grid) ==
    \A p \in Pos : grid[p] # 0 => \A q \in Peers[p] : grid[q] # grid[p]

Complete(grid) == \A p \in Pos : grid[p] \in Digits

Agrees(grid, puzzle) == \A p \in Pos : puzzle[p] # 0 => grid[p] = puzzle[p]

\* A valid completion of a puzzle.
IsCompletion(grid, puzzle) ==
    Complete(grid) /\ NoConflict(grid) /\ Agrees(grid, puzzle)

\* The digits a blank cell can take next to the values of its row, column
\* and box.
Fits(grid, p) == Digits \ {grid[q] : q \in Peers[p]}

\* The valid completions of a puzzle with conflict-free givens, found by
\* filling a blank cell with the fewest fitting digits first.
RECURSIVE Fill(_)
Fill(grid) ==
    LET blanks == {p \in Pos : grid[p] = 0}
        sizes == {Cardinality(Fits(grid, p)) : p \in blanks}
        least == CHOOSE m \in sizes : \A k \in sizes : m <= k
        cell == CHOOSE p \in blanks : Cardinality(Fits(grid, p)) = least
    IN  IF blanks = {} THEN {grid}
        ELSE UNION {Fill((cell :> d) @@ grid) : d \in Fits(grid, cell)}

Completions(puzzle) == IF NoConflict(puzzle) THEN Fill(puzzle) ELSE {}

\* ------------------------------------------------------------------ input

\* The characters of the input: the ASCII digits and two others.
DigitChars == <<"0", "1", "2", "3", "4", "5", "6", "7", "8", "9">>

\* char::is_ascii_digit and char::to_digit(10) (main.rs:491,493).
is_ascii_digit(c) == \E i \in 1 .. 10 : DigitChars[i] = c
to_digit(c) == (CHOOSE i \in 1 .. 10 : DigitChars[i] = c) - 1

\* A grid written as one line of 81 digits, and as 9 lines of 9 digits
\* separated by blanks.
LineOf(grid) == [i \in 1 .. N * N |-> DigitChars[grid[<<RowOf(i - 1), ColOf(i - 1)>>] + 1]]
RowLinesOf(grid) ==
    [r \in 1 .. N |->
        [i \in 1 .. 2 * N |->
            IF i % 2 = 1 THEN DigitChars[grid[<<r - 1, (i - 1) \div 2>>] + 1] ELSE " "]]

\* ------------------------------------------------------------- main, pool

\* The most worker threads of the pool (--threads, main.rs:461).
MaxThreads == 2

VARIABLES
    input,      \* stdin: a sequence of lines, each a sequence of characters
    lineNo,     \* the lines main has read
    count,      \* main's count of digits of the current puzzle
    raw,        \* main's board array
    all,        \* Args::all
    threads,    \* the worker threads of the pool
    mpc,        \* where main is: "read", "install" or "exit"
    total,      \* ResolveCtx::total of each install, in order
    given,      \* history: the grid each install's board was made from
    tasks,      \* the resolve tasks spawned and not finished
    out,        \* stdout: solution blocks and blank lines
    bf_board,   \* brute_force: the grid it works on
    bf_empty,   \* brute_force: the mask of the originally blank cells
    bf_stack,   \* brute_force: the stack of the cells holding a guess
    bf_row,     \* brute_force: the row of the scan
    bf_col,     \* brute_force: the column of the scan
    bf_pc,      \* "call": between two calls; "scan": inside the loops
    bf_ret,     \* what the last call returned: "none", "true" or "false"
    bf_found,   \* history: the grids resolve_2 printed, in order
    sb_board,   \* a SudokuBoard driven through its methods
    sb_path,    \* the guesses made on it, as resolve's q
    sb_last,    \* the last operation: "new", "solve", "guess" or "set"
    sb_ret,     \* what the last solve returned
    sb_emptied, \* history of the last solve: a cell ran out of candidates
    sb_pre,     \* history: the values of the board before the last solve
    sb_hist,    \* history: "built", "zeroed" or "dirty" (see BoardSet)
    sb_sets,    \* how many times set was called from outside
    sb_exit,    \* the return the last solve took: "none" before any solve
    sb_moved    \* history: the last pass of the last solve changed the board

mvars == <<input, lineNo, count, raw, all, threads, mpc, total, given, tasks, out>>
bvars == <<bf_board, bf_empty, bf_stack, bf_row, bf_col, bf_pc, bf_ret, bf_found>>
svars ==
    <<sb_board, sb_path, sb_last, sb_ret, sb_emptied, sb_pre, sb_hist, sb_sets,
      sb_exit, sb_moved>>
vars == <<mvars, bvars, svars>>

\* The input streams of the model.
Inputs ==
    { <<LineOf(ManyPuzzle)>>,
      <<LineOf(Test2)>>,
      <<LineOf(DeadPuzzle)>>,
      <<LineOf(ExhaustedPuzzle)>>,
      <<LineOf(ConflictPuzzle)>>,
      <<LineOf(DeepPuzzle)>>,
      <<LineOf(ManyPuzzle), LineOf(Test1)>>,
      RowLinesOf(Test1) \o <<LineOf(ManyPuzzle)>>,
      <<LineOf(ManyPuzzle) \o <<"x">> \o LineOf(Test1)>>,
      <<SubSeq(LineOf(Test2), 1, 80)>> }

\* The state of main before its first line, on one of the input streams.
MainInit(inputs) ==
    /\ input \in inputs
    /\ lineNo = 0
    /\ count = 0
    /\ raw = [p \in Pos |-> 0]
    /\ all \in BOOLEAN
    /\ threads \in 1 .. MaxThreads
    /\ mpc = "read"
    /\ total = <<>>
    /\ given = <<>>
    /\ tasks = {}
    /\ out = <<>>

\* resolve_2 before its first call of brute_force (main.rs:407-417): the mask
\* marks the zeros of the grid and the stack holds (0, 0).
BruteInit(puzzles) ==
    /\ bf_board \in puzzles
    /\ bf_empty = [p \in Pos |-> bf_board[p] = 0]
    /\ bf_stack = << <<0, 0>> >>
    /\ bf_row = 0
    /\ bf_col = 0
    /\ bf_pc = "call"
    /\ bf_ret = "none"
    /\ bf_found = <<>>

\* The brute-force solver is not run.
BruteIdle ==
    /\ bf_board = [p \in Pos |-> 0]
    /\ bf_empty = [p \in Pos |-> FALSE]
    /\ bf_stack = <<>>
    /\ bf_row = 0
    /\ bf_col = 0
    /\ bf_pc = "call"
    /\ bf_ret = "false"
    /\ bf_found = <<>>

\* main is not run.
MainIdle ==
    /\ input = <<>>
    /\ lineNo = 0
    /\ count = 0
    /\ raw = [p \in Pos |-> 0]
    /\ all = FALSE
    /\ threads = 1
    /\ mpc = "exit"
    /\ total = <<>>
    /\ given = <<>>
    /\ tasks = {}
    /\ out = <<>>

\* No board is driven from outside main.
BoardIdle ==
    /\ sb_board = EmptyBoard
    /\ sb_path = <<>>
    /\ sb_last = "new"
    /\ sb_ret = FALSE
    /\ sb_emptied = FALSE
    /\ sb_pre = [p \in Pos |-> 0]
    /\ sb_hist = "built"
    /\ sb_sets = 0
    /\ sb_exit = "none"
    /\ sb_moved = FALSE

Init == MainInit(Inputs) /\ BruteIdle /\ BoardIdle

\* The context of the install main is in, or of the last one.
CurCtx == Len(total)

\* A resolve task: its ResolveCtx (by number), its board, its guess path q
\* and where it is: "spawned" (in the pool's queue), "loaded" (on a worker,
\* past the load of total) or "solved" (past the fetch_add, before println).
Task(ctx, b, q, pc) == [ctx |-> ctx, board |-> b, q |-> q, pc |-> pc]

Running == {t \in tasks : t.pc # "spawned"}

\* main reads one line (main.rs:490-508): its ASCII digits are written to the
\* board array at count, count + 1, ...; the digit that makes count 81
\* installs resolve on a new context and board, and the break at line 506
\* leaves the rest of the line unread.
ReadLine ==
    /\ mpc = "read"
    /\ lineNo < Len(input)
    /\ LET ds == SelectSeq(input[lineNo + 1], is_ascii_digit)
           n == IF Len(ds) < N * N - count THEN Len(ds) ELSE N * N - count
           filled == [p \in Pos |->
                        IF /\ RowMajor(p[1], p[2]) >= count
                           /\ RowMajor(p[1], p[2]) < count + n
                        THEN to_digit(ds[RowMajor(p[1], p[2]) - count + 1])
                        ELSE raw[p]]
       IN  /\ raw' = filled
           /\ count' = count + n
           /\ lineNo' = lineNo + 1
           /\ IF count + n = N * N
              THEN /\ total' = Append(total, 0)
                   /\ given' = Append(given, filled)
                   /\ tasks' = tasks \cup
                        {Task(Len(total) + 1, new_with(filled), <<>>, "spawned")}
                   /\ mpc' = "install"
              ELSE UNCHANGED <<total, given, tasks, mpc>>
    /\ UNCHANGED <<input, all, threads, out>>
    /\ UNCHANGED <<bvars, svars>>

\* thread_pool.install returns when the closure it ran, resolve(ctx, board,
\* vec![]), has returned; the tasks that closure left in the pool with
\* rayon::spawn are not waited for.  main resets count and prints the blank
\* line (main.rs:503-505).
InstallReturn ==
    /\ mpc = "install"
    /\ ~\E t \in tasks : t.ctx = CurCtx /\ t.q = <<>>
    /\ count' = 0
    /\ out' = Append(out, [kind |-> "blank", ctx |-> CurCtx])
    /\ mpc' = "read"
    /\ UNCHANGED <<input, lineNo, raw, all, threads, total, given, tasks>>
    /\ UNCHANGED <<bvars, svars>>

\* stdin is at its end: main returns and the process exits, whatever the
\* pool still holds (main.rs:490,510).
Exit ==
    /\ mpc = "read"
    /\ lineNo = Len(input)
    /\ mpc' = "exit"
    /\ UNCHANGED <<input, lineNo, count, raw, all, threads, total, given, tasks, out>>
    /\ UNCHANGED <<bvars, svars>>

\* TaskStart whose early return does not look at all.
TaskStartIgnoresAll(t) ==
    /\ mpc # "exit"
    /\ t.pc = "spawned"
    /\ Cardinality(Running) < threads
    /\ tasks' = IF total[t.ctx] > 0
                THEN tasks \ {t}
                ELSE (tasks \ {t}) \cup {[t EXCEPT !.pc = "loaded"]}
    /\ UNCHANGED <<input, lineNo, count, raw, all, threads, mpc, total, given, out>>
    /\ UNCHANGED <<bvars, svars>>

\* A worker takes a task and runs resolve up to its first statement, the load
\* of total (main.rs:281-283): with a solution counted and all not asked for,
\* resolve returns.
TaskStart(t) ==
    /\ mpc # "exit"
    /\ t.pc = "spawned"
    /\ Cardinality(Running) < threads
    /\ tasks' = IF total[t.ctx] > 0 /\ ~all
                THEN tasks \ {t}
                ELSE (tasks \ {t}) \cup {[t EXCEPT !.pc = "loaded"]}
    /\ UNCHANGED <<input, lineNo, count, raw, all, threads, mpc, total, given, out>>
    /\ UNCHANGED <<bvars, svars>>

\* The cell resolve guesses (main.rs:292-324): the first cell of value 0 in
\* row-major order at or after the last guess of q; none: the empty set.
FreeCells(b, q) ==
    LET last == IF q = <<>> THEN <<0, 0, 0>> ELSE q[Len(q)]
        free_pos == RowMajor(last[1], last[2])
    IN  {p \in Pos : RowMajor(p[1], p[2]) >= free_pos /\ b[p].val = 0}

\* FirstFree with the scan reversed: the last free cell.
LastFree(cells) ==
    CHOOSE p \in cells :
        \A o \in cells : RowMajor(p[1], p[2]) >= RowMajor(o[1], o[2])

FirstFree(cells) ==
    CHOOSE p \in cells :
        \A o \in cells : RowMajor(p[1], p[2]) <= RowMajor(o[1], o[2])

\* Children whose clones are not assigned the guessed digit.
ChildrenNoSet(ctx, b, q) ==
    IF FreeCells(b, q) = {} THEN {}
    ELSE LET p == FirstFree(FreeCells(b, q))
         IN  {Task(ctx, b, Append(q, <<p[1], p[2], digit>>), "spawned") :
                 digit \in b[p].digits}

\* Children that leaves out the largest candidate of the free cell.
ChildrenButLast(ctx, b, q) ==
    IF FreeCells(b, q) = {} THEN {}
    ELSE LET p == FirstFree(FreeCells(b, q))
         IN  {Task(ctx, set(b, digit, p[1], p[2]),
                   Append(q, <<p[1], p[2], digit>>), "spawned") :
                 digit \in {d \in b[p].digits : \E e \in b[p].digits : e > d}}

\* The tasks resolve spawns for a board that is stuck: one for each candidate
\* digit of the free cell, on a clone of the board with the digit set.
Children(ctx, b, q) ==
    IF FreeCells(b, q) = {} THEN {}
    ELSE LET p == FirstFree(FreeCells(b, q))
         IN  {Task(ctx, set(b, digit, p[1], p[2]),
                   Append(q, <<p[1], p[2], digit>>), "spawned") :
                 digit \in b[p].digits}

\* resolve from solve on (main.rs:284-325): a solved board is counted (and
\* printed by TaskPrint), a stuck one is forked, an exhausted one dropped.
TaskSolve(t) ==
    /\ mpc # "exit"
    /\ t.pc = "loaded"
    /\ \E r \in solve(t.board) :
          IF r.ret
          THEN /\ total' = [total EXCEPT ![t.ctx] = @ + 1]
               /\ tasks' = (tasks \ {t}) \cup
                              {[t EXCEPT !.board = r.board, !.pc = "solved"]}
          ELSE /\ tasks' = (tasks \ {t}) \cup
                              (IF exhausted(r.board) THEN {}
                               ELSE Children(t.ctx, r.board, t.q))
               /\ UNCHANGED total
    /\ UNCHANGED <<input, lineNo, count, raw, all, threads, mpc, given, out>>
    /\ UNCHANGED <<bvars, svars>>

\* println!("{}\n{}", ctx.sep, board) (main.rs:289): one block of output.
TaskPrint(t) ==
    /\ mpc # "exit"
    /\ t.pc = "solved"
    /\ out' = Append(out, [kind |-> "solution", ctx |-> t.ctx,
                           grid |-> Values(t.board)])
    /\ tasks' = tasks \ {t}
    /\ UNCHANGED <<input, lineNo, count, raw, all, threads, mpc, total, given>>
    /\ UNCHANGED <<bvars, svars>>

MainNext ==
    \/ ReadLine
    \/ InstallReturn
    \/ Exit
    \/ \E t \in tasks : TaskStart(t)
    \/ \E t \in tasks : TaskSolve(t)
    \/ \E t \in tasks : TaskPrint(t)

Next == MainNext

Spec == Init /\ [][Next]_vars

\* ------------------------------------------------------------ brute_force

\* Admissible without the test of the 3x3 box.
AdmissibleNoBox(b, row, col) ==
    {digit \in (b[<<row, col>>] + 1) .. N :
        /\ \A i \in Idx : b[<<row, i>>] # digit
        /\ \A i \in Idx : b[<<i, col>>] # digit}

\* The digits next_digit tries for (row, col): those above the cell's value
\* that no cell of the row, the column or the box holds (main.rs:338-366).
Admissible(b, row, col) ==
    {digit \in (b[<<row, col>>] + 1) .. N :
        /\ \A i \in Idx : b[<<row, i>>] # digit
        /\ \A i \in Idx : b[<<i, col>>] # digit
        /\ \A row_x \in 0 .. (B - 1) : \A col_x \in 0 .. (B - 1) :
              b[<<(row \div B) * B + row_x, (col \div B) * B + col_x>>] # digit}

\* next_digit that returns the last admissible digit instead of the first.
next_digit_last(b, row, col) ==
    LET ds == Admissible(b, row, col)
    IN  IF ds = {} THEN <<>>
        ELSE <<CHOOSE d \in ds : \A e \in ds : d >= e>>

\* next_digit: Some(the first admissible digit) or None, as a sequence of at
\* most one digit.
next_digit(b, row, col) ==
    LET ds == Admissible(b, row, col)
    IN  IF ds = {} THEN <<>>
        ELSE <<CHOOSE d \in ds : \A e \in ds : d <= e>>

\* Open without the blank mask: a cell holding a guess is taken as a given.
OpenNoMask(b, row, col) == b[<<row, col>>] = 0

\* The cell is treated as a blank (main.rs:371).
Open(b, row, col) == b[<<row, col>>] = 0 \/ bf_empty[<<row, col>>]

\* The end of one round of the inner loop on the grid b (main.rs:395-402):
\* at (8, 8) with a digit the call returns true and resolve_2 prints the grid;
\* otherwise the scan moves on, and a scan that leaves the last row returns
\* false.
Advance(b) ==
    IF bf_row = N - 1 /\ bf_col = N - 1 /\ b[<<bf_row, bf_col>>] # 0
    THEN /\ bf_pc' = "call"
         /\ bf_ret' = "true"
         /\ bf_found' = Append(bf_found, b)
         /\ UNCHANGED <<bf_row, bf_col>>
    ELSE /\ bf_row' = IF bf_col = N - 1 THEN bf_row + 1 ELSE bf_row
         /\ bf_col' = IF bf_col = N - 1 THEN 0 ELSE bf_col + 1
         /\ bf_pc' = IF bf_col = N - 1 /\ bf_row = N - 1 THEN "call" ELSE "scan"
         /\ bf_ret' = IF bf_col = N - 1 /\ bf_row = N - 1 THEN "false" ELSE bf_ret
         /\ UNCHANGED bf_found

\* resolve_2 calls brute_force again unless the last call returned false
\* (main.rs:426-433).  An empty stack returns false; otherwise the top of the
\* stack is where the scan resumes (main.rs:331-335).
BfCall ==
    /\ bf_pc = "call"
    /\ bf_ret # "false"
    /\ IF bf_stack = <<>>
       THEN /\ bf_ret' = "false"
            /\ UNCHANGED <<bf_stack, bf_row, bf_col, bf_pc>>
       ELSE /\ bf_row' = bf_stack[Len(bf_stack)][1]
            /\ bf_col' = bf_stack[Len(bf_stack)][2]
            /\ bf_stack' = SubSeq(bf_stack, 1, Len(bf_stack) - 1)
            /\ bf_pc' = "scan"
            /\ UNCHANGED bf_ret
    /\ UNCHANGED <<bf_board, bf_empty, bf_found>>
    /\ UNCHANGED <<mvars, svars>>

\* A blank cell with a next digit: the digit is written and the cell pushed
\* (main.rs:373-377).
BfPlace ==
    /\ bf_pc = "scan"
    /\ Open(bf_board, bf_row, bf_col)
    /\ next_digit(bf_board, bf_row, bf_col) # <<>>
    /\ LET digit == next_digit(bf_board, bf_row, bf_col)[1]
           placed == (<<bf_row, bf_col>> :> digit) @@ bf_board
       IN  /\ bf_board' = placed
           /\ bf_stack' = Append(bf_stack, <<bf_row, bf_col>>)
           /\ Advance(placed)
    /\ UNCHANGED bf_empty
    /\ UNCHANGED <<mvars, svars>>

\* BfBacktrack without the reset of the cell (main.rs:380 left out).
BfBacktrackNoReset ==
    /\ bf_pc = "scan"
    /\ Open(bf_board, bf_row, bf_col)
    /\ next_digit(bf_board, bf_row, bf_col) = <<>>
    /\ IF bf_stack # <<>>
       THEN /\ bf_row' = bf_stack[Len(bf_stack)][1]
            /\ bf_col' = bf_stack[Len(bf_stack)][2]
            /\ bf_stack' = SubSeq(bf_stack, 1, Len(bf_stack) - 1)
            /\ UNCHANGED <<bf_pc, bf_ret>>
       ELSE /\ bf_pc' = "call"
            /\ bf_ret' = "false"
            /\ UNCHANGED <<bf_stack, bf_row, bf_col>>
    /\ UNCHANGED <<bf_board, bf_empty, bf_found>>
    /\ UNCHANGED <<mvars, svars>>

\* A blank cell without a next digit: it is reset and the scan goes back to
\* the cell on top of the stack; with an empty stack the call returns false
\* (main.rs:378-391).
BfBacktrack ==
    /\ bf_pc = "scan"
    /\ Open(bf_board, bf_row, bf_col)
    /\ next_digit(bf_board, bf_row, bf_col) = <<>>
    /\ bf_board' = (<<bf_row, bf_col>> :> 0) @@ bf_board
    /\ IF bf_stack # <<>>
       THEN /\ bf_row' = bf_stack[Len(bf_stack)][1]
            /\ bf_col' = bf_stack[Len(bf_stack)][2]
            /\ bf_stack' = SubSeq(bf_stack, 1, Len(bf_stack) - 1)
            /\ UNCHANGED <<bf_pc, bf_ret>>
       ELSE /\ bf_pc' = "call"
            /\ bf_ret' = "false"
            /\ UNCHANGED <<bf_stack, bf_row, bf_col>>
    /\ UNCHANGED <<bf_empty, bf_found>>
    /\ UNCHANGED <<mvars, svars>>

\* A given cell is passed over (main.rs:371, 395-399).
BfSkip ==
    /\ bf_pc = "scan"
    /\ ~Open(bf_board, bf_row, bf_col)
    /\ Advance(bf_board)
    /\ UNCHANGED <<bf_board, bf_empty, bf_stack>>
    /\ UNCHANGED <<mvars, svars>>

BruteNext ==
    \/ BfCall
    \/ BfPlace
    \/ BfBacktrack
    \/ BfSkip

\* The puzzles of the completed grid with some pool cells blanked.
PoolPuzzles == {Blanked(Solved, cells) : cells \in SUBSET Pool}

\* The puzzles the brute-force solver is run on.
BrutePuzzles ==
    PoolPuzzles \cup {Test1, Test2, DeadPuzzle, ExhaustedPuzzle, ConflictPuzzle}

\* resolve_2 alone.
InitBrute == MainIdle /\ BruteInit(BrutePuzzles) /\ BoardIdle

SpecBrute == InitBrute /\ [][BruteNext]_vars

\* Both solvers on one puzzle: resolve_2 first, then main on the puzzle's
\* line.
AgreeInit ==
    \E puzzle \in BrutePuzzles :
        /\ MainInit({<<LineOf(puzzle)>>})
        /\ BruteInit({puzzle})
        /\ BoardIdle

AgreeNext ==
    \/ BruteNext
    \/ (bf_ret = "false" /\ MainNext)

SpecAgree == AgreeInit /\ [][AgreeNext]_vars

\* ------------------------------------------------------------ SudokuBoard

\* A puzzle with conflict-free givens and no completion on which solve may
\* end on different boards.
ForkedPuzzle == Given(Test2, <<7, 4>>, 6)

\* The grids boards are constructed from.
BoardPuzzles ==
    {Test1, Test2, ManyPuzzle, DeadPuzzle, ForkedPuzzle, ExhaustedPuzzle,
     ConflictPuzzle, Solved}

\* How many calls of set from outside solve and resolve a run makes, the
\* cells they write and the values they write.
MaxSets == 1
SetCells == {<<0, 5>>, <<2, 8>>, <<4, 4>>}
SetVals == 0 .. N

\* SudokuBoard::new_with on `grid`.  sb_hist is "built" while the board is
\* what its values construct: givens without conflict, and assignments of a
\* candidate to an unassigned cell only.
BoardInit ==
    \E grid \in BoardPuzzles :
        /\ sb_board = new_with(grid)
        /\ sb_path = <<>>
        /\ sb_last = "new"
        /\ sb_ret = FALSE
        /\ sb_emptied = FALSE
        /\ sb_pre = grid
        /\ sb_hist = IF NoConflict(grid) THEN "built" ELSE "dirty"
        /\ sb_sets = 0
        /\ sb_exit = "none"
        /\ sb_moved = FALSE

\* board.solve(), as resolve calls it: on a board that was constructed or
\* assigned to since the last solve.
BoardSolve ==
    /\ sb_last # "solve"
    /\ \E r \in solve(sb_board) :
          /\ sb_board' = r.board
          /\ sb_ret' = r.ret
          /\ sb_emptied' = r.emptied
          /\ sb_exit' = r.exit
          /\ sb_moved' = r.moved
    /\ sb_pre' = Values(sb_board)
    /\ sb_last' = "solve"
    /\ UNCHANGED <<sb_path, sb_hist, sb_sets>>
    /\ UNCHANGED <<mvars, bvars>>

\* The guess of resolve on a board solve left stuck (main.rs:290-315): a
\* candidate of the free cell is set on a clone.
BoardGuess ==
    /\ sb_last = "solve"
    /\ ~sb_ret
    /\ ~exhausted(sb_board)
    /\ \E c \in Children(0, sb_board, sb_path) :
          /\ sb_board' = c.board
          /\ sb_path' = c.q
    /\ sb_last' = "guess"
    /\ UNCHANGED <<sb_ret, sb_emptied, sb_pre, sb_hist, sb_sets, sb_exit, sb_moved>>
    /\ UNCHANGED <<mvars, bvars>>

\* board.set(val, row, col) with any value.  A value that is not a candidate
\* of an unassigned cell makes the history "dirty"; a 0 leaves a cell without
\* value and with the candidates it had, so the board is no longer "built".
BoardSet(val, row, col) ==
    /\ sb_sets < MaxSets
    /\ sb_board' = set(sb_board, val, row, col)
    /\ sb_hist' =
          IF sb_hist = "dirty" THEN "dirty"
          ELSE IF val = 0 THEN "zeroed"
          ELSE IF sb_board[<<row, col>>].val = 0
                  /\ val \in sb_board[<<row, col>>].digits
          THEN sb_hist
          ELSE "dirty"
    /\ sb_sets' = sb_sets + 1
    /\ sb_last' = "set"
    /\ UNCHANGED <<sb_path, sb_ret, sb_emptied, sb_pre, sb_exit, sb_moved>>
    /\ UNCHANGED <<mvars, bvars>>

BoardNext ==
    \/ BoardSolve
    \/ BoardGuess
    \/ \E val \in SetVals : \E p \in SetCells : BoardSet(val, p[1], p[2])

InitBoard == MainIdle /\ BruteIdle /\ BoardInit

SpecBoard == InitBoard /\ [][BoardNext]_vars

\* ----------------------------------------------------- claims on the search

Ctxs == 1 .. Len(total)

\* The solution blocks printed for a context, in the order of stdout.
Emitted(k) == SelectSeq(out, LAMBDA e : e.kind = "solution" /\ e.ctx = k)
EmittedGrids(k) == {Emitted(k)[i].grid : i \in 1 .. Len(Emitted(k))}

\* Every task spawned for a context has run to its end.
Finished(k) == ~\E t \in tasks : t.ctx = k

\* C1: in all-solutions mode, once every task of a puzzle with conflict-free
\* givens has finished, the grids printed for it are exactly its valid
\* completions, each printed once.
C1_AllCompletionsOnce ==
    all => \A k \in Ctxs :
        (Finished(k) /\ NoConflict(given[k])) =>
            /\ EmittedGrids(k) = Completions(given[k])
            /\ Len(Emitted(k)) = Cardinality(EmittedGrids(k))

\* A puzzle with two completions has had both printed.
C1_Witness ==
    /\ all
    /\ \E k \in Ctxs : /\ Finished(k)
                       /\ NoConflict(given[k])
                       /\ Cardinality(EmittedGrids(k)) = 2

\* C2: without all-solutions at most one grid is printed for a puzzle and
\* its counter never exceeds 1, whatever the interleaving of the tasks.
C2_AtMostOne ==
    ~all => \A k \in Ctxs : total[k] <= 1 /\ Len(Emitted(k)) <= 1

\* C3: install returns only after every task of the puzzle has finished, so
\* on stdout no solution block of a puzzle follows the blank line that ends
\* the puzzle's output (and hence none follows the start of the next solve).
C3_BlankLineLast ==
    \A i \in 1 .. Len(out) : \A j \in 1 .. Len(out) :
        (out[i].kind = "blank" /\ out[j].kind = "solution"
            /\ out[j].ctx = out[i].ctx) => j < i

\* The grids counted in total for a context and not printed yet.
Counted(k) == {Values(t.board) : t \in {t \in tasks : t.ctx = k /\ t.pc = "solved"}}

\* C4: every grid printed for a puzzle with conflict-free givens is complete,
\* agrees with the givens and has no repeated digit in a row, column or box;
\* the counter is the number of such grids printed or about to be, so a
\* puzzle with no valid completion prints nothing and keeps its counter at 0.
C4_EmittedValid ==
    \A k \in Ctxs :
        /\ \A g \in EmittedGrids(k) \cup Counted(k) :
              NoConflict(given[k]) => IsCompletion(g, given[k])
        /\ total[k] = Len(Emitted(k)) + Cardinality(Counted(k))

\* A grid has been printed in first-solution mode.
C4_Witness ==
    /\ ~all
    /\ \E k \in Ctxs : NoConflict(given[k]) /\ Len(Emitted(k)) = 1

\* solve() alone is stuck on the puzzle: it returns false and leaves every
\* unassigned cell with a candidate.
Stuck(puzzle) ==
    \E r \in solve(new_with(puzzle)) : ~r.ret /\ ~DeadCell(r.board)

\* C5: for a puzzle with conflict-free givens and a valid completion on which
\* solve() alone is stuck, the search run to completion (every task of the
\* puzzle executed, either mode) has printed at least one grid free of
\* repeated digits.  Stated from the result: a finished search that printed
\* no such grid was not given such a puzzle.
C5_StuckPuzzleSolved ==
    \A k \in Ctxs :
        (Finished(k) /\ ~\E g \in EmittedGrids(k) : Complete(g) /\ NoConflict(g))
            => ~(NoConflict(given[k]) /\ Stuck(given[k])
                    /\ Completions(given[k]) # {})

\* The tasks of test_sudoku_2's puzzle have all run, in first-solution mode.
C5_Witness ==
    /\ ~all
    /\ \E k \in Ctxs : Finished(k) /\ given[k] = Test2 /\ Len(Emitted(k)) >= 1

\* ------------------------------------------------ claims on brute_force

\* The puzzle brute_force was started on: the givens are the cells outside
\* the blank mask, which it never writes.
BfPuzzle == [p \in Pos |-> IF bf_empty[p] THEN 0 ELSE bf_board[p]]

BfFoundSet == {bf_found[i] : i \in 1 .. Len(bf_found)}

\* C6: on a puzzle with conflict-free givens, every call of brute_force that
\* returns true leaves a valid completion in the grid, no completion is
\* returned twice, and when a call returns false the calls before it have
\* returned every valid completion; so a puzzle with one completion gives
\* true with that completion, then false.
C6_BruteEnumerates ==
    (bf_pc = "call" /\ NoConflict(BfPuzzle)) =>
        /\ \A i \in 1 .. Len(bf_found) :
              /\ IsCompletion(bf_found[i], BfPuzzle)
              /\ \A j \in 1 .. Len(bf_found) : bf_found[i] = bf_found[j] => i = j
        /\ bf_ret = "true" => bf_board = bf_found[Len(bf_found)]
        /\ bf_ret = "false" => BfFoundSet = Completions(BfPuzzle)

\* brute_force has returned true twice and then false.
C6_Witness ==
    /\ bf_pc = "call"
    /\ bf_ret = "false"
    /\ NoConflict(BfPuzzle)
    /\ Len(bf_found) = 2

\* C7: the two solvers agree on a puzzle with conflict-free givens once both
\* have finished: with one valid completion, the grid of the first true of
\* brute_force is the grid the search prints; in all-solutions mode the
\* grids brute_force returns are the grids the search prints.
C7_SolversAgree ==
    (bf_ret = "false" /\ Len(total) = 1 /\ Finished(1) /\ NoConflict(given[1])) =>
        /\ all => EmittedGrids(1) = BfFoundSet
        /\ Cardinality(Completions(given[1])) = 1 =>
              /\ Len(bf_found) >= 1
              /\ EmittedGrids(1) = {bf_found[1]}

\* Both solvers have finished on test_sudoku_2's puzzle, which has one
\* completion and needs a guess.
C7_Witness ==
    /\ bf_ret = "false"
    /\ Len(total) = 1
    /\ Finished(1)
    /\ given[1] = Test2
    /\ Stuck(Test2)
    /\ Len(bf_found) = 1
    /\ EmittedGrids(1) = {bf_found[1]}

\* ------------------------------------------------ claims on SudokuBoard

\* The cells of a unit of p other than p: its row (1), column (2) or box (3).
UnitOthers(p, u) ==
    {q \in Peers[p] :
        CASE u = 1 -> q[1] = p[1]
          [] u = 2 -> q[2] = p[2]
          [] u = 3 -> q[1] \div B = p[1] \div B /\ q[2] \div B = p[2] \div B}

\* The deductions open on a grid, as pairs <<cell, digit>>: a naked single
\* (the blank cell fits one digit only) or a hidden single (no other blank
\* cell of the row, the column or the box fits the digit).
Singles(grid) ==
    LET blanks == {p \in Pos : grid[p] = 0}
        fit == [p \in blanks |-> Fits(grid, p)] @@ <<>>
    IN  {s \in blanks \X Digits :
            /\ s[2] \in fit[s[1]]
            /\ \/ fit[s[1]] = {s[2]}
               \/ \E u \in 1 .. 3 :
                     \A q \in UnitOthers(s[1], u) \cap blanks : s[2] \notin fit[q]}

\* The grid with the deductions of `singles` written.
Written(grid, singles) ==
    [p \in Pos |-> IF \E s \in singles : s[1] = p
                   THEN (CHOOSE s \in singles : s[1] = p)[2]
                   ELSE grid[p]] @@ <<>>

\* The grid that deductions alone lead to.  The deductions open on a grid
\* with a completion are all true of the completion, so they are written
\* together; deductions that clash show that there is no completion.
RECURSIVE Deduce(_)
Deduce(grid) ==
    LET singles == Singles(grid)
        next == Written(grid, singles)
    IN  IF singles = {} THEN grid
        ELSE IF (\E s, t \in singles : s[1] = t[1] /\ s[2] # t[2]) \/ ~NoConflict(next)
        THEN grid
        ELSE Deduce(next)

\* The puzzle can be completely filled by naked and hidden singles.
Deducible(puzzle) == NoConflict(puzzle) /\ Complete(Deduce(puzzle))

\* C8: solve() on a board with conflict-free givens that naked and hidden
\* singles fill completely returns true with every cell assigned, no digit
\* repeated in a row, column or box, the givens unchanged, and the grid the
\* puzzle's only completion.
C8_DeducibleSolved ==
    (sb_last = "solve" /\ sb_hist = "built" /\ Deducible(sb_pre)) =>
        /\ sb_ret
        /\ IsCompletion(Values(sb_board), sb_pre)
        /\ Completions(sb_pre) = {Values(sb_board)}

\* solve() has filled the missing cells of test_sudoku_1's puzzle.
C8_Witness ==
    /\ sb_last = "solve"
    /\ sb_hist = "built"
    /\ sb_pre = Test1
    /\ Deducible(Test1)
    /\ sb_ret
    /\ Values(sb_board) = Solved

\* C9: when an unassigned cell has no candidate on entry to solve(), or
\* loses its last one by an assignment of solve(), solve() returns false
\* and exhausted() is true of the board it leaves.
C9_EmptiedFails ==
    (sb_last = "solve" /\ sb_emptied) => (~sb_ret /\ exhausted(sb_board))

\* solve() met no dead cell on entry and made one by an assignment.
C9_Witness ==
    /\ sb_last = "solve"
    /\ sb_emptied
    /\ sb_hist = "built"
    /\ Cardinality({p \in Pos : sb_pre[p] = 0 /\ Fits(sb_pre, p) = {}}) = 0
    /\ ~sb_ret

\* C10, as claimed: whatever the 81 digits and the assignments, no two
\* cells of a row, column or box of the board hold the same nonzero value.
C10_AlwaysUnique == NoConflict(Values(sb_board))

\* C10, amended: on a board constructed from digits without conflict, after
\* any sequence of solve(), guesses of resolve and set() of 0 or of a
\* candidate of an unassigned cell, no two cells of a row, column or box
\* hold the same nonzero value.
C10_UniqueWhenClean == sb_hist # "dirty" => NoConflict(Values(sb_board))

\* A guess has been set and solve() has assigned cells after it.
C10_Witness ==
    /\ sb_hist # "dirty"
    /\ sb_last = "solve"
    /\ sb_path # <<>>
    /\ Values(sb_board) # sb_pre

\* ------------------------------------------------ claims on termination

\* A worker holds a task that is past the load of total and before solve.
SolveReady == mpc # "exit" /\ \E t \in tasks : t.pc = "loaded"

\* The workers are scheduled fairly: a task that can be started, solved or
\* printed is not left waiting for ever.  The fairness of TaskSolve is
\* WF_vars(\E t \in tasks : TaskSolve(t)) written out, SolveReady being what
\* enables the action.
SpecFair ==
    /\ Init
    /\ [][Next]_vars
    /\ WF_vars(\E t \in tasks : TaskStart(t))
    /\ WF_vars(\E t \in tasks : TaskPrint(t))
    /\ ([]<>(~SolveReady) \/ []<><<\E t \in tasks : TaskSolve(t)>>_vars)

\* The resolve tasks pending or running in the pool; a process that has
\* exited holds none.
Pending == IF mpc = "exit" THEN {} ELSE tasks

\* How many cells of a board are assigned.
Assigned(board) == Cardinality({p \in Pos : board[p].val # 0})

\* Every task a step spawns by a fork has one more guess than a task that
\* was running before the step, and more assigned cells than it.
ChildrenGrow ==
    \A c \in tasks' \ tasks :
        (c.pc = "spawned" /\ c.q # <<>>) =>
            \E t \in tasks :
                /\ t.pc = "loaded"
                /\ t.ctx = c.ctx
                /\ t.q = SubSeq(c.q, 1, Len(c.q) - 1)
                /\ Assigned(c.board) > Assigned(t.board)

\* C11: under fair scheduling of the workers the pending and running resolve
\* tasks eventually become none and stay none, in either mode; every task
\* spawned by a fork has strictly more assigned cells than its parent.
C11_SearchTerminates ==
    /\ <>[](Pending = {})
    /\ [][ChildrenGrow]_vars

\* The pool has drained after a fork whose two branches both printed.
C11_Witness ==
    /\ mpc # "exit"
    /\ tasks = {}
    /\ \E k \in Ctxs : given[k] = ManyPuzzle /\ Len(Emitted(k)) = 2

\* ----------------------------------------------------- claims on the input

\* The ASCII digits of the first n lines of the input, in order.
RECURSIVE StreamDigits(_)
StreamDigits(n) ==
    IF n = 0 THEN <<>>
    ELSE StreamDigits(n - 1) \o SelectSeq(input[n], is_ascii_digit)

\* The k-th group of 81 digits of a sequence of digit characters, as a grid.
GroupOf(ds, k) ==
    [p \in Pos |-> to_digit(ds[N * N * (k - 1) + RowMajor(p[1], p[2]) + 1])]

\* C12: whenever main is between two lines or has exited, the digits read
\* so far have triggered one solve for each complete group of 81, the k-th
\* on the k-th group in order, and the digits of the incomplete group wait in
\* count; no digit is dropped or used twice.
C12_InputGrouping ==
    mpc \in {"read", "exit"} =>
        LET ds == StreamDigits(lineNo)
        IN  /\ Len(total) = Len(ds) \div (N * N)
            /\ count = Len(ds) % (N * N)
            /\ \A k \in 1 .. Len(total) : given[k] = GroupOf(ds, k)

\* ------------------------------------------------ claims on the early exit

\* A step in which the queued task t is taken by a worker.
Taken(t) == t \in tasks /\ t.pc = "spawned" /\ t \notin tasks'

\* C13: a task that finds the counter of its puzzle at 1 or more when it
\* starts, all-solutions not being asked for, ends there: the counter and
\* stdout are unchanged and no task is added; with all-solutions asked for,
\* or with the counter at 0, the task goes on to solve.
C13_EarlyExit ==
    [][\A t \in tasks :
          Taken(t) =>
              IF total[t.ctx] >= 1 /\ ~all
              THEN tasks' = tasks \ {t} /\ total' = total /\ out' = out
              ELSE [t EXCEPT !.pc = "loaded"] \in tasks']_vars

\* Of the two branches of a puzzle with two completions one has printed and
\* the other has ended without printing.
C13_Witness ==
    /\ ~all
    /\ \E k \in Ctxs : /\ given[k] = ManyPuzzle
                       /\ Finished(k)
                       /\ total[k] = 1
                       /\ Len(Emitted(k)) = 1

\* ------------------------------------------------ claims on set and solve

\* Boards made by new_with and calls of set alone.
NextSet == \E val \in SetVals : \E p \in SetCells : BoardSet(val, p[1], p[2])

SpecSet == InitBoard /\ [][NextSet]_vars

\* The cells set is called on a second time: the cells of row 0 and the
\* cells of SetCells.
ProbeCells == {p \in Pos : p[1] = 0} \cup SetCells

\* C14: on every board, for every cell and every digit 1..9, a second
\* set(v, row, col) leaves every value and every candidate set as the first
\* call left them.
C14_SetIdempotent ==
    \A p \in ProbeCells : \A v \in Digits :
        LET once == set(sb_board, v, p[1], p[2])
        IN  set(once, v, p[1], p[2]) = once

\* set(5, 0, 5) was called on a board, and calling it again changes nothing.
C14_Witness ==
    /\ sb_last = "set"
    /\ sb_board[<<0, 5>>].val = 5
    /\ set(sb_board, 5, 0, 5) = sb_board

\* Every cell of the board holds a digit.
AllAssigned(board) == \A p \in Pos : board[p].val # 0

\* C15: solve() returns true exactly when it leaves no cell unassigned, and
\* on a board without unassigned cell it returns true and leaves every value
\* and every candidate set as it was.  (The steps that make sb_last "solve"
\* are the calls of solve.)
C15_TrueIffFull ==
    [][sb_last' = "solve" =>
          /\ sb_ret' <=> AllAssigned(sb_board')
          /\ AllAssigned(sb_board) => (sb_ret' /\ sb_board' = sb_board)]_vars

\* solve() was called on a board without zeros and returned true.
C15_Witness ==
    /\ sb_last = "solve"
    /\ Complete(sb_pre)
    /\ sb_ret

\* ------------------------------------------- claims on the choice of cell

\* The row-major position of the i-th guess of a path.
GuessPos(q, i) == RowMajor(q[i][1], q[i][2])

\* C16: in every resolve task the positions of the guesses of its path
\* increase strictly and every cell up to the last guess is assigned; and
\* whenever solve leaves the board of a running task stuck and not exhausted,
\* the search from the last guess on finds a cell, which is the first
\* unassigned cell of the whole board.
C16_NoFreeCellSkipped ==
    \A t \in tasks :
        /\ \A i \in 1 .. Len(t.q) - 1 : GuessPos(t.q, i) < GuessPos(t.q, i + 1)
        /\ t.q # <<>> =>
              \A p \in Pos : RowMajor(p[1], p[2]) <= GuessPos(t.q, Len(t.q))
                                => t.board[p].val # 0
        /\ t.pc = "loaded" =>
              \A r \in solve(t.board) :
                  (~r.ret /\ ~exhausted(r.board)) =>
                      /\ FreeCells(r.board, t.q) # {}
                      /\ FirstFree(FreeCells(r.board, t.q))
                            = FirstFree({p \in Pos : r.board[p].val = 0})

\* A task with two guesses on its path is running, and solve leaves its
\* board stuck again.
C16_Witness ==
    \E t \in tasks :
        /\ t.pc = "loaded"
        /\ Len(t.q) = 2

\* ------------------------------------------------ claims on propagation

\* The completion S is kept by `board`: every assigned cell holds S's value
\* and every unassigned cell has S's value among its candidates.
Keeps(board, S) ==
    \A p \in Pos : IF board[p].val # 0 THEN board[p].val = S[p]
                   ELSE S[p] \in board[p].digits

\* C17: propagation is sound.  On a board built from conflict-free givens by
\* assignments of candidates, every valid completion of the values is kept by
\* the board; every valid completion of the values solve() was called on is
\* kept by the board solve() leaves, which is then neither exhausted nor has
\* lost a cell's last candidate; and when the board is left stuck, every such
\* completion is kept by the board of one of the fork's children.
C17_PropagationSound ==
    sb_hist = "built" =>
        /\ \A S \in Completions(Values(sb_board)) : Keeps(sb_board, S)
        /\ sb_last = "solve" =>
              \A S \in Completions(sb_pre) :
                  /\ Keeps(sb_board, S)
                  /\ ~exhausted(sb_board)
                  /\ ~sb_emptied
                  /\ ~sb_ret =>
                        \E c \in Children(0, sb_board, sb_path) :
                            Keeps(c.board, S)

\* solve() made assignments on a board with a valid completion and left it
\* stuck.
C17_Witness ==
    /\ sb_hist = "built"
    /\ sb_last = "solve"
    /\ ~sb_ret
    /\ Completions(sb_pre) # {}
    /\ Values(sb_board) # sb_pre

\* The rows, the columns and the 3x3 boxes, as sets of cells.
Units ==
    {{<<i, j>> : j \in Idx} : i \in Idx} \cup
    {{<<i, j>> : i \in Idx} : j \in Idx} \cup
    {{<<B * i + a, B * j + b>> : a, b \in 0 .. (B - 1)} : i, j \in 0 .. (B - 1)}

\* The cell invariant of a board: an assigned cell has no candidates, and the
\* candidates of an unassigned cell are digits that no assigned cell of its
\* row, column or box holds.
CellInv(board) ==
    /\ \A p \in Pos :
          IF board[p].val # 0 THEN board[p].digits = {}
          ELSE board[p].digits \subseteq Digits
    /\ \A unit \in Units :
          LET held == {board[q].val : q \in unit} \ {0}
          IN  \A p \in unit : board[p].digits \cap held = {}

\* No cell has a candidate after the step that it did not have before.
NoGrowth == \A p \in Pos : sb_board'[p].digits \subseteq sb_board[p].digits

\* C18: every board constructed by new_with and changed by set (of any
\* value, a given overwritten included), solve() and the clone-and-set of a
\* guess satisfies the cell invariant, and no such step adds a candidate to
\* a cell.
C18_CellInvariant == [](CellInv(sb_board)) /\ [][NoGrowth]_vars

\* set has overwritten a given by another digit next to an unassigned cell
\* that still has candidates.
C18_Witness ==
    /\ sb_last = "set"
    /\ \E c \in SetCells :
          /\ sb_pre[c] # 0
          /\ sb_board[c].val \notin {0, sb_pre[c]}
          /\ \E p \in Peers[c] : sb_board[p].val = 0 /\ sb_board[p].digits # {}

\* The digit d is a single of the unassigned cell p on the board: the only
\* candidate of p, or a candidate of p that no other cell of p's row, of its
\* column or of its box has.
SingleOn(board, p, d) ==
    /\ board[p].val = 0
    /\ d \in board[p].digits
    /\ \/ board[p].digits = {d}
       \/ \E u \in 1 .. 3 : \A q \in UnitOthers(p, u) : d \notin board[q].digits

\* C19: stuck means fixpoint.  When solve() has returned false on a board
\* that is not exhausted, it returned after a pass that changed nothing,
\* every unassigned cell has at least two candidates, no naked or hidden
\* single is left on the board and the fork has at least two children; and
\* solve() returns false on a board that is exhausted exactly when it
\* returns from a cell with an empty candidate set.
C19_StuckIsFixpoint ==
    sb_last = "solve" =>
        /\ (~sb_ret /\ ~exhausted(sb_board)) =>
              /\ sb_exit = "stuck"
              /\ ~sb_moved
              /\ \A p \in Pos :
                    sb_board[p].val = 0 => Cardinality(sb_board[p].digits) >= 2
              /\ \A p \in Pos : \A d \in Digits : ~SingleOn(sb_board, p, d)
              /\ Cardinality(Children(0, sb_board, sb_path)) >= 2
        /\ (~sb_ret /\ exhausted(sb_board)) <=> sb_exit = "empty"

\* solve() has assigned cells and then left the board stuck in a later pass.
C19_Witness ==
    /\ sb_last = "solve"
    /\ ~sb_ret
    /\ ~exhausted(sb_board)
    /\ Values(sb_board) # sb_pre

\* ------------------------------------------- claims on brute_force's grid

\* What a step of brute_force leaves alone: the given cells and the blank
\* mask; and a call with an empty stack returns false and leaves the grid
\* and the stack as they are.
BfFrame ==
    /\ \A p \in Pos : ~bf_empty[p] => bf_board'[p] = bf_board[p]
    /\ bf_empty' = bf_empty
    /\ (bf_pc = "call" /\ bf_stack = <<>>) =>
          /\ bf_ret' = "false"
          /\ bf_board' = bf_board
          /\ bf_stack' = bf_stack

\* C20: brute_force starts on the puzzle (every cell of the blank mask is
\* 0), no step changes a given cell, a call with an empty stack returns
\* false without a change of the grid, and whenever a call has returned
\* false the stack is empty and the grid is the puzzle again.
C20_CleanFailure ==
    /\ bf_board = BfPuzzle
    /\ [][BfFrame]_vars
    /\ [](bf_ret = "false" => (bf_stack = <<>> /\ bf_board = BfPuzzle))

\* brute_force has returned a completion, with digits in blank cells, and
\* then false, with those cells blank again.
C20_Witness ==
    /\ bf_ret = "false"
    /\ bf_found # <<>>
    /\ \E p \in Pos : bf_empty[p] /\ bf_found[1][p] # 0 /\ bf_board[p] = 0

\* ------------------------------------------ claims on brute_force's stack

\* The cells the stack holds, and the originally blank cells.
BfStacked == {bf_stack[i] : i \in 1 .. Len(bf_stack)}
BfBlanks == {p \in Pos : bf_empty[p]}

\* The stack is strictly increasing in row-major order.
BfStackSorted ==
    \A i \in 1 .. Len(bf_stack) - 1 :
        RowMajor(bf_stack[i][1], bf_stack[i][2]) <
            RowMajor(bf_stack[i + 1][1], bf_stack[i + 1][2])

\* C21: at every iteration of the scan of brute_force the stack is strictly
\* increasing in row-major order and holds exactly the originally blank
\* cells before the scan position; each of them holds a digit that no other
\* cell of its row, column or box holds; every originally blank cell after
\* the scan position holds 0.  When a call has returned true the stack holds
\* exactly the originally blank cells.
C21_StackInvariant ==
    LET here == RowMajor(bf_row, bf_col)
        stacked == BfStacked
    IN  /\ bf_pc = "scan" =>
              /\ BfStackSorted
              /\ stacked = {p \in BfBlanks : RowMajor(p[1], p[2]) < here}
              /\ \A p \in stacked : bf_board[p] # 0
              /\ \A unit \in Units : \A p \in unit \cap stacked :
                    \A q \in unit \ {p} : bf_board[q] # bf_board[p]
              /\ \A p \in BfBlanks : RowMajor(p[1], p[2]) > here => bf_board[p] = 0
        /\ (bf_pc = "call" /\ bf_ret = "true") =>
              /\ BfStackSorted
              /\ stacked = BfBlanks

\* The scan has gone back, after a completion was returned, to a cell that
\* still holds its old guess, with guesses below it on the stack.
C21_Witness ==
    /\ bf_pc = "scan"
    /\ bf_found # <<>>
    /\ Len(bf_stack) >= 2
    /\ bf_empty[<<bf_row, bf_col>>]
    /\ bf_board[<<bf_row, bf_col>>] # 0
====
